---- MODULE Spec2Model ----
(***************************************************************************)
(* Model of app.py: the housekeeping time-series dashboard.                *)
(*                                                                         *)
(*   Spec         the application as app.py runs it: prepare_data() at     *)
(*                import time (line 124), layout construction, and the     *)
(*                update_plot callback.                                    *)
(*   SpecDrive    the remote variant prepare_data_from_drive() with        *)
(*                list_files_recursively() over a folder hierarchy.        *)
(*   SpecLocator  the two file-name filters applied to candidate names.    *)
(*                                                                         *)
(* File names and paths are strings.  Time is counted in ticks since the   *)
(* epoch, TicksPerDay ticks to a calendar day.  Statistics are held in     *)
(* tenths (value * 10) so that the 0.1 / 0.5 / 0.9 linear-interpolation    *)
(* quantiles are exact integers; NaN is the empty tuple, a number x is the *)
(* one-element tuple <<x>>.                                                *)
(*                                                                         *)
(*   SpecQuery    the callback alone, started in the state Startup leaves  *)
(*                behind for one well-formed file.                         *)
(*                                                                         *)
(* Inputs the model leaves out: files without data rows, files whose       *)
(* column sets differ, and a missing or invalid service-account file       *)
(* (lines 41-55).                                                          *)
(***************************************************************************)
EXTENDS Integers, Sequences, FiniteSets, TLC

VARIABLES
    pc,        \* Spec: position of the process: "import", "serving", "terminated"
    disk,      \* Spec: the files under orbit/, in the order glob returns them
    df,        \* the module-level DataFrame df (line 124)
    layout,    \* app.layout (lines 127-151), <<>> while not constructed
    query,     \* the callback inputs of the latest update_plot call
    result,    \* what the latest update_plot call returned or raised
    drive,     \* SpecDrive: the items of the remote folder hierarchy
    listed,    \* SpecDrive: outcome of prepare_data_from_drive
    cand,      \* SpecLocator: the candidate file [dir, name]
    keptLocal, \* SpecLocator: verdict of prepare_data's filter
    keptDrive  \* SpecLocator: verdict of prepare_data_from_drive's filter

vars == <<pc, disk, df, layout, query, result, drive, listed,
          cand, keptLocal, keptDrive>>

-----------------------------------------------------------------------------
(* Bounds *)

MaxFields == 4      \* underscore-separated fields in a generated file name
MaxRows == 2        \* data rows on disk, over all files (Spec)
MaxFrameRows == 3   \* rows of the loaded frame (SpecQuery)
MaxTime == 4        \* largest timestamp, in ticks
MaxVal == 2         \* parameter values are 1..MaxVal
MaxItems == 3       \* items in the remote folder hierarchy
PageSize == 2       \* items the listing service returns per call

\* One tick is the 12 hours of pd.Timedelta(hours=12) (lines 192, 200), so
\* a calendar day is two ticks: midnight and noon.
TicksPerDay == 2

-----------------------------------------------------------------------------
(* Strings *)

Sub(s, i, j) == IF i >= 1 /\ j <= Len(s) /\ i <= j THEN SubSeq(s, i, j) ELSE ""

Char(s, i) == Sub(s, i, i)

Digit == {"0", "1", "2", "3", "4", "5", "6", "7", "8", "9"}

\* str.endswith (line 66)
EndsWith(s, suffix) ==
    Len(s) >= Len(suffix) /\ Sub(s, Len(s) - Len(suffix) + 1, Len(s)) = suffix

-----------------------------------------------------------------------------
(* The regular-expression engine, as far as lines 69, 104-106 use it.      *)
(* A compiled pattern is a sequence of elements:                           *)
(*   [k |-> "lit", s |-> str]  the literal str                             *)
(*   [k |-> "digits"]          \d+                                         *)
(*   [k |-> "any"]             .                                           *)
(*   [k |-> "star"]            .*                                          *)
(*   [k |-> "end"]             \Z                                          *)

Lit(s) == [k |-> "lit", s |-> s]
Digits == [k |-> "digits", s |-> ""]
AnyChar == [k |-> "any", s |-> ""]
Star == [k |-> "star", s |-> ""]
EndAnchor == [k |-> "end", s |-> ""]

\* TRUE iff pat[i..] matches a prefix of s[pos..] (backtracking match).
RECURSIVE MatchHere(_, _, _, _)
MatchHere(pat, i, s, pos) ==
    IF i > Len(pat) THEN TRUE
    ELSE LET e == pat[i] IN
         CASE e.k = "lit" ->
                /\ Sub(s, pos, pos + Len(e.s) - 1) = e.s
                /\ MatchHere(pat, i + 1, s, pos + Len(e.s))
           [] e.k = "digits" ->
                \E n \in 1..(Len(s) - pos + 1) :
                    /\ \A j \in pos..(pos + n - 1) : Char(s, j) \in Digit
                    /\ MatchHere(pat, i + 1, s, pos + n)
           [] e.k = "any" ->
                /\ pos <= Len(s)
                /\ MatchHere(pat, i + 1, s, pos + 1)
           [] e.k = "star" ->
                \E n \in 0..(Len(s) - pos + 1) :
                    MatchHere(pat, i + 1, s, pos + n)
           [] OTHER ->
                /\ pos = Len(s) + 1
                /\ MatchHere(pat, i + 1, s, pos)

\* Pattern.search: a match starting anywhere
Search(pat, s) == \E pos \in 1..(Len(s) + 1) : MatchHere(pat, 1, s, pos)

\* Pattern.match: a match starting at the first character
Match(pat, s) == MatchHere(pat, 1, s, 1)

\* The pattern with one numeric field fewer
exclude_pattern_three ==
    <<Lit("payload_lexi_"), Digits, Lit("_"), Digits, Lit("_"), Digits,
      Lit("_hk_output"), AnyChar, Lit("csv")>>

\* re.compile(r"payload_lexi_\d+_\d+_\d+_\d+_hk_output.csv")
exclude_pattern ==
    <<Lit("payload_lexi_"), Digits, Lit("_"), Digits, Lit("_"), Digits,
      Lit("_"), Digits, Lit("_hk_output"), AnyChar, Lit("csv")>>

\* "payload_lexi_*_*_hk_output.csv" as glob's fnmatch compiles it:
\* every * becomes .* and the whole name must match.
file_name_format ==
    <<Lit("payload_lexi_"), Star, Lit("_"), Star, Lit("_hk_output.csv"),
      EndAnchor>>

-----------------------------------------------------------------------------
(* The File Locator's filters *)

\* A file under orbit/ : the directory it lies in and its base name.
Path(f) == f.dir \o "/" \o f.name

\* glob.glob("orbit/**/payload_lexi_*_*_hk_output.csv", recursive=True)
\* keeps the paths whose base name matches the pattern (line 105) ...
GlobMatches(f) == Match(file_name_format, f.name)

\* ... and line 107 drops the paths in which exclude_pattern is found.
KeptLocal(f) == GlobMatches(f) /\ ~Search(exclude_pattern, Path(f))

\* prepare_data_from_drive, lines 66 and 70, on the item's name.
KeptDrive(name) ==
    EndsWith(name, "hk_output.csv") /\ ~Search(exclude_pattern, name)

-----------------------------------------------------------------------------
(* Candidate names for SpecLocator *)

Prefixes == {"payload_lexi", "xpayload_lexi", "lexi"}
FieldTexts == {"7", "42", "A"}
Suffixes == {"_hk_output.csv", "_hk_output_csv", "_hk_output.csv.bak",
             "_sci_output.csv"}
Dirs == {"orbit", "orbit/payload_lexi_1_2_3_4_hk_output_csv"}

RECURSIVE JoinFields(_)
JoinFields(fs) ==
    IF fs = <<>> THEN "" ELSE "_" \o Head(fs) \o JoinFields(Tail(fs))

FieldSeqs == UNION {[1..n -> FieldTexts] : n \in 0..MaxFields}

CandNames ==
    {p \o JoinFields(fs) \o x : p \in Prefixes, fs \in FieldSeqs, x \in Suffixes}
        \cup {"payload_lexi_1_2_3_4_hk_output.csv"}

Candidates == [dir : Dirs, name : CandNames]

-----------------------------------------------------------------------------
(* CSV files and the DataFrame *)

\* The value columns every housekeeping file carries besides "Date"; the
\* dropdown's default value (line 137) is one of them.
ValueColumns == <<"+28V_Imon">>

DigitText == <<"0", "1", "2", "3", "4", "5", "6", "7", "8", "9">>

DigitValue(c) == CHOOSE n \in 0..9 : DigitText[n + 1] = c

\* The text of timestamp t in a file: "<day>T<tick>".
DateText(t) == DigitText[(t \div TicksPerDay) + 1] \o "T" \o DigitText[(t % TicksPerDay) + 1]

\* pd.to_datetime on one cell (lines 94, 113, and the comparison operands of
\* line 165): <<t>> for a well-formed text, <<>> where parsing raises.
ToDatetime(text) ==
    IF /\ Len(text) = 3
       /\ Char(text, 1) \in Digit
       /\ Char(text, 2) = "T"
       /\ Char(text, 3) \in Digit
       /\ DigitValue(Char(text, 3)) < TicksPerDay
    THEN <<DigitValue(Char(text, 1)) * TicksPerDay + DigitValue(Char(text, 3))>>
    ELSE <<>>

\* One line of a CSV file: the Date cell and the parameter's value.
CsvRow(text, v) == [Date |-> text, val |-> v]

DateTexts == {DateText(t) : t \in 0..MaxTime} \cup {"n/a"}
CsvRows == {CsvRow(text, v) : text \in DateTexts, v \in 1..MaxVal}

RowSeqs(n) == [1..n -> CsvRows]

DiskNames == {"payload_lexi_1_2_hk_output.csv",
              "payload_lexi_1_2_3_4_hk_output.csv"}

\* Every file has at least one data row.
FilesOf(n) == {[dir |-> "orbit", name |-> nm, rows |-> rs] :
                  nm \in DiskNames, rs \in RowSeqs(n)}

RECURSIVE DisksOf(_)
DisksOf(budget) ==
    {<<>>} \cup UNION {{<<f>> \o d : f \in FilesOf(n), d \in DisksOf(budget - n)} :
                       n \in 1..budget}

\* pd.read_csv: the table of one file
read_csv(f) == f.rows

RECURSIVE Flatten(_)
Flatten(tables) ==
    IF tables = <<>> THEN <<>> ELSE Head(tables) \o Flatten(Tail(tables))

\* pd.concat(tables, ignore_index=True): rows of the tables in the order
\* given; raises ValueError("No objects to concatenate") on an empty list.
concat(tables) ==
    IF tables = <<>>
    THEN [raised |-> "ValueError", rows |-> <<>>]
    ELSE [raised |-> "", rows |-> Flatten(tables)]

\* df["Date"] = pd.to_datetime(df["Date"]); df.set_index("Date", inplace=True)
\* (lines 94-95, 113-114).  The rows keep their positions.
set_index(rows) ==
    [i \in 1..Len(rows) |-> [Date |-> ToDatetime(rows[i].Date)[1], val |-> rows[i].val]]

\* Lines 91-97 and 110-116, common to both variants.
assemble(tables) ==
    LET c == concat(tables) IN
    IF c.raised # "" THEN [raised |-> c.raised, columns |-> <<>>, rows |-> <<>>]
    ELSE IF \E i \in 1..Len(c.rows) : ToDatetime(c.rows[i].Date) = <<>>
    THEN [raised |-> "DateParseError", columns |-> <<>>, rows |-> <<>>]
    ELSE [raised |-> "", columns |-> ValueColumns, rows |-> set_index(c.rows)]

\* prepare_data (lines 101-116)
prepare_data(d) ==
    LET csv_files == SelectSeq(d, KeptLocal)
        tables == [i \in 1..Len(csv_files) |-> read_csv(csv_files[i])]
    IN assemble(tables)

-----------------------------------------------------------------------------
(* Calendar days *)

Day(t) == t \div TicksPerDay

\* Timestamp.date() as a timestamp: midnight of the day
Midnight(day) == day * TicksPerDay

\* pd.Timedelta(hours=12)
Noon == TicksPerDay \div 2

RECURSIVE SeqMin(_)
SeqMin(seq) ==
    IF Len(seq) = 1 THEN seq[1]
    ELSE LET m == SeqMin(Tail(seq)) IN IF seq[1] <= m THEN seq[1] ELSE m

RECURSIVE SeqMax(_)
SeqMax(seq) ==
    IF Len(seq) = 1 THEN seq[1]
    ELSE LET m == SeqMax(Tail(seq)) IN IF seq[1] >= m THEN seq[1] ELSE m

Dates(rows) == [i \in 1..Len(rows) |-> rows[i].Date]

\* app.layout (lines 127-151)
Layout(frame) ==
    [options |-> frame.columns,
     value |-> "+28V_Imon",
     start_date |-> Midnight(Day(SeqMin(Dates(frame.rows)))),
     end_date |-> Midnight(Day(SeqMax(Dates(frame.rows))) + 1)]

-----------------------------------------------------------------------------
(* Daily statistics *)

NaN == <<>>

\* a - b on floats that may be NaN
Minus(a, b) == IF a = NaN \/ b = NaN THEN NaN ELSE <<a[1] - b[1]>>

Ascending(vals) == SortSeq(vals, LAMBDA a, b : a < b)

\* Series.median of one day's values, in tenths; NaN for no values
median(vals) ==
    LET n == Len(vals)
        sv == Ascending(vals)
    IN IF n = 0 THEN NaN
       ELSE IF n % 2 = 1 THEN <<10 * sv[(n + 1) \div 2]>>
       ELSE <<5 * (sv[n \div 2] + sv[(n \div 2) + 1])>>

\* Series.quantile(q / 10) with linear interpolation, in tenths
quantile(vals, q) ==
    LET n == Len(vals)
        sv == Ascending(vals)
        pos == q * (n - 1)
        lo == (pos \div 10) + 1
        frac == pos % 10
    IN IF n = 0 THEN NaN
       ELSE IF frac = 0 THEN <<10 * sv[lo]>>
       ELSE <<10 * sv[lo] + frac * (sv[lo + 1] - sv[lo])>>

Values(rows) == [i \in 1..Len(rows) |-> rows[i].val]

OnDay(rows, day) == SelectSeq(rows, LAMBDA r : Day(r.Date) = day)

DailyRow(rows, day) ==
    LET vals == Values(OnDay(rows, day)) IN
    [date |-> Midnight(day),
     median |-> median(vals),
     p10 |-> quantile(vals, 1),
     p90 |-> quantile(vals, 9)]

\* A resampling that would leave out the days without records
resample_populated(rows) ==
    LET days == {Day(rows[i].Date) : i \in 1..Len(rows)}
        sorted == SortSeq(CHOOSE q \in [1..Cardinality(days) -> days] :
                              \A d \in days : \E i \in DOMAIN q : q[i] = d,
                          LAMBDA a, b : a < b)
    IN [k \in 1..Len(sorted) |-> DailyRow(rows, sorted[k])]

\* .resample("D").agg(["median", quantile(0.1), quantile(0.9)]), lines 177-184:
\* one bin for every calendar day from the day of the earliest record to the
\* day of the latest, whether or not records fall into it.
resample(rows) ==
    IF rows = <<>> THEN <<>>
    ELSE LET first == Day(SeqMin(Dates(rows)))
             last == Day(SeqMax(Dates(rows)))
         IN [k \in 1..(last - first + 1) |-> DailyRow(rows, first + k - 1)]

-----------------------------------------------------------------------------
(* update_plot (lines 163-223) *)

\* A mask that would leave out the end bound
InRangeOpenEnd(t, start, end) == t >= start /\ t < end

\* (df.index >= start_date) & (df.index <= end_date), line 165
InRange(t, start, end) == t >= start /\ t <= end

\* Error bars with the two arms exchanged
error_y_swapped(stats) ==
    [type |-> "data",
     symmetric |-> FALSE,
     array |-> [i \in 1..Len(stats) |-> Minus(stats[i].p90, stats[i].median)],
     arrayminus |-> [i \in 1..Len(stats) |-> Minus(stats[i].median, stats[i].p10)]]

\* lines 202-207
error_y(stats) ==
    [type |-> "data",
     symmetric |-> FALSE,
     array |-> [i \in 1..Len(stats) |-> Minus(stats[i].median, stats[i].p10)],
     arrayminus |-> [i \in 1..Len(stats) |-> Minus(stats[i].p90, stats[i].median)]]

update_plot(frame, selected_param, start_date, end_date) ==
    LET start == ToDatetime(start_date)[1]
        end == ToDatetime(end_date)[1]
        filtered_df == SelectSeq(frame.rows, LAMBDA r : InRange(r.Date, start, end))
        daily_stats == resample(filtered_df)
        noons == [i \in 1..Len(daily_stats) |-> daily_stats[i].date + Noon]
        medians == [i \in 1..Len(daily_stats) |-> daily_stats[i].median]
        trace == [x |-> Dates(filtered_df),
                  y |-> Values(filtered_df),
                  mode |-> "lines",
                  name |-> selected_param]
        trace_avg == [x |-> noons,
                      y |-> medians,
                      mode |-> "markers",
                      name |-> "Daily Average"]
        trace_error == [x |-> noons,
                        y |-> medians,
                        error_y |-> error_y(daily_stats),
                        mode |-> "markers",
                        name |-> "10th-90th Percentile"]
    IN IF \A i \in 1..Len(frame.columns) : frame.columns[i] # selected_param
       THEN [raised |-> "KeyError", data |-> <<>>, title |-> <<>>]
       ELSE [raised |-> "",
             data |-> <<trace, trace_avg, trace_error>>,
             title |-> <<"Time Series of ", selected_param>>]

\* A callback that would rebind the module-level name
df_after_update_plot_rebound(frame, start_date, end_date) ==
    [frame EXCEPT !.rows =
        SelectSeq(frame.rows, LAMBDA r : InRange(r.Date, ToDatetime(start_date)[1],
                                                 ToDatetime(end_date)[1]))]

\* update_plot assigns only local names; df[mask] (line 166) builds a new
\* frame and the in-place calls of lines 184-190 act on daily_stats.
df_after_update_plot(frame, start_date, end_date) == frame

-----------------------------------------------------------------------------
(* Spec: the application *)

Params == {"+28V_Imon", "HV_Imon"}
PickerTexts == {DateText(t) : t \in 0..MaxTime}

NoDrive == drive = <<>> /\ listed = <<>>
NoLocator == cand = <<>> /\ keptLocal = "unset" /\ keptDrive = "unset"

Init ==
    /\ pc = "import"
    /\ disk \in DisksOf(MaxRows)
    /\ df = <<>>
    /\ layout = <<>>
    /\ query = <<>>
    /\ result = <<>>
    /\ NoDrive
    /\ NoLocator

\* Importing the module: lines 120-151.  An exception raised by
\* prepare_data() is caught nowhere and ends the process.
Startup ==
    /\ pc = "import"
    /\ LET loaded == prepare_data(disk) IN
         IF loaded.raised # ""
         THEN /\ pc' = "terminated"
              /\ UNCHANGED <<df, layout>>
         ELSE /\ pc' = "serving"
              /\ df' = [columns |-> loaded.columns, rows |-> loaded.rows]
              /\ layout' = <<Layout(loaded)>>
    /\ UNCHANGED <<disk, query, result, drive, listed, cand, keptLocal, keptDrive>>

\* The callback fires on a change of the dropdown or the date picker.
UpdatePlot ==
    /\ pc = "serving"
    /\ result = <<>>
    /\ \E selected_param \in Params, start_date \in PickerTexts, end_date \in PickerTexts :
         /\ query' = [param |-> selected_param, start |-> start_date, end |-> end_date]
         /\ result' = <<update_plot(df, selected_param, start_date, end_date)>>
         /\ df' = df_after_update_plot(df, start_date, end_date)
    /\ UNCHANGED <<pc, disk, layout, drive, listed, cand, keptLocal, keptDrive>>

\* The figure (or the error) goes back to the browser; the process waits for
\* the next change.
Respond ==
    /\ pc = "serving"
    /\ result # <<>>
    /\ query' = <<>>
    /\ result' = <<>>
    /\ UNCHANGED <<pc, disk, df, layout, drive, listed, cand, keptLocal, keptDrive>>

Next == Startup \/ UpdatePlot \/ Respond

Spec == Init /\ [][Next]_vars

-----------------------------------------------------------------------------
(* SpecQuery: the callback on the frames one well-formed file loads to *)

\* Records spread over time, the value telling the position in the file
TimeRows(n) ==
    {[i \in 1..n |-> CsvRow(DateText(ts[i]), ((i - 1) % MaxVal) + 1)] :
        ts \in [1..n -> 0..MaxTime]}

\* Records of one instant with any values
ValueRows(n) ==
    {[i \in 1..n |-> CsvRow(DateText(t), vs[i])] :
        t \in 0..MaxTime, vs \in [1..n -> 1..MaxVal]}

QueryDisks(maxRows) ==
    {<<[dir |-> "orbit", name |-> "payload_lexi_1_2_hk_output.csv", rows |-> rs]>> :
        rs \in UNION {TimeRows(n) \cup ValueRows(n) : n \in 1..maxRows}}

InitQuery ==
    /\ pc = "serving"
    /\ disk \in QueryDisks(MaxFrameRows)
    /\ LET loaded == prepare_data(disk) IN
         /\ df = [columns |-> loaded.columns, rows |-> loaded.rows]
         /\ layout = <<Layout(loaded)>>
    /\ query = <<>>
    /\ result = <<>>
    /\ NoDrive
    /\ NoLocator

NextQuery == UpdatePlot \/ Respond

SpecQuery == InitQuery /\ [][NextQuery]_vars

-----------------------------------------------------------------------------
(* The remote folder hierarchy and prepare_data_from_drive *)

FolderMime == "application/vnd.google-apps.folder"

\* The id of the shared folder (line 58); the id of item i of drive is i.
RootFolder == 0

\* service.files().list(q="'<folder_id>' in parents ...").execute().get("files"):
\* one call, answered with the first page of the folder's children.  The
\* request names no pageToken and the answer's nextPageToken is not among
\* the requested fields (lines 21-25).
ListPage(items, folder_id) ==
    LET children == SelectSeq([i \in 1..Len(items) |-> i],
                              LAMBDA i : items[i].parent = folder_id)
    IN SubSeq(children, 1, IF Len(children) < PageSize THEN Len(children) ELSE PageSize)

\* list_files_recursively (lines 16-35); the result lists item ids.
RECURSIVE list_files_recursively(_, _)
RECURSIVE CollectFiles(_, _)
CollectFiles(items, files) ==
    IF files = <<>> THEN <<>>
    ELSE (IF items[Head(files)].mimeType = FolderMime
          THEN list_files_recursively(items, Head(files))
          ELSE <<Head(files)>>)
         \o CollectFiles(items, Tail(files))

list_files_recursively(items, folder_id) ==
    CollectFiles(items, ListPage(items, folder_id))

\* prepare_data_from_drive (lines 38-97), the credentials being valid
prepare_data_from_drive(items) ==
    LET all_files == list_files_recursively(items, RootFolder)
        files == SelectSeq(all_files, LAMBDA i : KeptDrive(items[i].name))
        dataframes == [k \in 1..Len(files) |-> read_csv(items[files[k]])]
    IN [all_files |-> all_files, files |-> files, frame |-> assemble(dataframes)]

DriveNames == {"payload_lexi_A_hk_output.csv", "payload_lexi_1_2_3_4_hk_output.csv"}
DriveTables == {<<CsvRow(DateText(0), 1)>>, <<CsvRow(DateText(TicksPerDay), 1)>>}

FoldersOf(items) == {RootFolder} \cup {i \in 1..Len(items) : items[i].mimeType = FolderMime}

ItemsUnder(items) ==
    {[name |-> "sub", mimeType |-> FolderMime, parent |-> p, rows |-> <<>>] :
        p \in FoldersOf(items)}
    \cup {[name |-> nm, mimeType |-> "text/csv", parent |-> p, rows |-> rs] :
            nm \in DriveNames, p \in FoldersOf(items), rs \in DriveTables}

\* Hierarchies of n items: every item lies in the root folder or in a folder
\* created before it, so there is no cycle.
RECURSIVE DrivesOf(_)
DrivesOf(n) ==
    IF n = 0 THEN {<<>>}
    ELSE UNION {{Append(d, it) : it \in ItemsUnder(d)} : d \in DrivesOf(n - 1)}

DrivesUpTo(n) == UNION {DrivesOf(k) : k \in 0..n}

InitDrive ==
    /\ pc = "import"
    /\ drive \in DrivesUpTo(MaxItems)
    /\ listed = <<>>
    /\ disk = <<>>
    /\ df = <<>>
    /\ layout = <<>>
    /\ query = <<>>
    /\ result = <<>>
    /\ NoLocator

\* Importing the module with line 123 in the place of line 124
DriveStartup ==
    /\ pc = "import"
    /\ LET loaded == prepare_data_from_drive(drive) IN
         /\ listed' = <<[all_files |-> loaded.all_files, files |-> loaded.files]>>
         /\ IF loaded.frame.raised # ""
            THEN /\ pc' = "terminated"
                 /\ UNCHANGED <<df, layout>>
            ELSE /\ pc' = "serving"
                 /\ df' = [columns |-> loaded.frame.columns, rows |-> loaded.frame.rows]
                 /\ layout' = <<Layout(loaded.frame)>>
    /\ UNCHANGED <<disk, query, result, drive, cand, keptLocal, keptDrive>>

NextDrive == DriveStartup \/ UpdatePlot \/ Respond

SpecDrive == InitDrive /\ [][NextDrive]_vars

-----------------------------------------------------------------------------
(* SpecLocator: both filters applied to one candidate file *)

Verdict(b) == IF b THEN "kept" ELSE "dropped"

Idle ==
    /\ pc = "idle" /\ disk = <<>> /\ df = <<>> /\ layout = <<>>
    /\ query = <<>> /\ result = <<>>

InitLocator ==
    /\ cand \in Candidates
    /\ keptLocal = "unset"
    /\ keptDrive = "unset"
    /\ drive = <<>> /\ listed = <<>>
    /\ Idle

LocalFilter ==
    /\ keptLocal = "unset"
    /\ keptLocal' = Verdict(KeptLocal(cand))
    /\ UNCHANGED <<pc, disk, df, layout, query, result, drive, listed,
                   cand, keptDrive>>

DriveFilter ==
    /\ keptDrive = "unset"
    /\ keptDrive' = Verdict(KeptDrive(cand.name))
    /\ UNCHANGED <<pc, disk, df, layout, query, result, drive, listed,
                   cand, keptLocal>>

NextLocator == LocalFilter \/ DriveFilter

SpecLocator == InitLocator /\ [][NextLocator]_vars

-----------------------------------------------------------------------------
(* C1 *)

AllDigits(s, a, b) == a <= b /\ \A j \in a..b : Char(s, j) \in Digit

\* s[a..] begins with a run of digits followed by an underscore; the set of
\* positions of that underscore.
FieldEnds(s, a) == {u \in (a + 1)..Len(s) : AllDigits(s, a, u - 1) /\ Char(s, u) = "_"}

\* Somewhere in s stands payload_lexi_<int>_<int>_<int>_<int>_hk_output?csv,
\* where ? is any one character.
HasFourNumericFields(s) ==
    \E i \in 1..Len(s) :
        /\ Sub(s, i, i + 12) = "payload_lexi_"
        /\ \E u1 \in FieldEnds(s, i + 13) :
           \E u2 \in FieldEnds(s, u1 + 1) :
           \E u3 \in FieldEnds(s, u2 + 1) :
           \E u4 \in FieldEnds(s, u3 + 1) :
               /\ Sub(s, u4, u4 + 9) = "_hk_output"
               /\ Char(s, u4 + 10) # ""
               /\ Sub(s, u4 + 11, u4 + 13) = "csv"

HasSuffix(s) == \E t \in 0..Len(s) : SubSeq(s, t + 1, Len(s)) = "hk_output.csv"

\* s = payload_lexi_ X _ Y _hk_output.csv for some (possibly empty) X and Y
HasGlobShape(s) ==
    /\ Sub(s, 1, 13) = "payload_lexi_"
    /\ Sub(s, Len(s) - 13, Len(s)) = "_hk_output.csv"
    /\ \E u \in 14..(Len(s) - 14) : Char(s, u) = "_"

\* C1 (as amended): the remote filter keeps a name iff it ends with
\* hk_output.csv and the four-numeric-field pattern occurs nowhere in it; the
\* local filter keeps a file iff its base name has the shape
\* payload_lexi_*_*_hk_output.csv and the pattern occurs nowhere in its path.
\* payload_lexi_1_2_3_4_hk_output.csv is dropped by both;
\* payload_lexi_A_hk_output.csv is kept by the remote filter and dropped by
\* the local one.
C1_FilterVerdicts ==
    /\ keptDrive # "unset" =>
          /\ (keptDrive = "kept") <=>
                (HasSuffix(cand.name) /\ ~HasFourNumericFields(cand.name))
          /\ cand.name = "payload_lexi_1_2_3_4_hk_output.csv" => keptDrive = "dropped"
          /\ cand.name = "payload_lexi_A_hk_output.csv" => keptDrive = "kept"
    /\ keptLocal # "unset" =>
          /\ (keptLocal = "kept") <=>
                (HasGlobShape(cand.name) /\ ~HasFourNumericFields(Path(cand)))
          /\ cand.name = "payload_lexi_1_2_3_4_hk_output.csv" => keptLocal = "dropped"
          /\ cand.name = "payload_lexi_A_hk_output.csv" => keptLocal = "dropped"

C1_Witness ==
    /\ cand.name = "payload_lexi_A_hk_output.csv"
    /\ keptDrive = "kept"
    /\ keptLocal = "dropped"

\* C1 as claimed: both filters keep exactly the names that end with the
\* suffix and do not match the four-numeric-field pattern.
C1_AsClaimed ==
    /\ keptDrive # "unset" =>
          ((keptDrive = "kept") <=>
              (HasSuffix(cand.name) /\ ~HasFourNumericFields(cand.name)))
    /\ keptLocal # "unset" =>
          ((keptLocal = "kept") <=>
              (HasSuffix(cand.name) /\ ~HasFourNumericFields(cand.name)))

-----------------------------------------------------------------------------
(* Claims about startup (Spec) *)

\* C2: when the locator yields no qualifying file, loading does not fail: the
\* process serves an empty Dataset, and a query on it returns an empty raw
\* series and empty daily statistics.
C2_EmptyLoadSucceeds ==
    (pc # "import" /\ SelectSeq(disk, KeptLocal) = <<>>) =>
        /\ pc = "serving"
        /\ df.rows = <<>>
        /\ result # <<>> =>
              /\ result[1].raised = ""
              /\ result[1].data[1].x = <<>>
              /\ result[1].data[2].x = <<>>

\* C3: whatever happens while loading, the process keeps running and the
\* layout is constructed.
C3_InertUiOnLoadFailure ==
    pc # "import" => (pc = "serving" /\ layout # <<>>)

\* C7: after assembly the Dataset's records are in non-decreasing timestamp
\* order, whatever the order of the files and of their rows.
C7_SortedAfterLoad ==
    pc = "serving" =>
        \A i \in 1..Len(df.rows) : \A j \in i..Len(df.rows) :
            df.rows[i].Date <= df.rows[j].Date

-----------------------------------------------------------------------------
(* Claims about update_plot *)

Returned == result # <<>> /\ result[1].raised = ""

\* The timestamp a picker text stands for
TimeOf(text) == CHOOSE t \in 0..MaxTime : DateText(t) = text

\* Positions of the Dataset's records inside the queried range
Selected ==
    {i \in 1..Len(df.rows) :
        TimeOf(query.start) <= df.rows[i].Date /\ df.rows[i].Date <= TimeOf(query.end)}

\* The k-th selected position, counting in Dataset order
NthSelected(k) == CHOOSE i \in Selected : Cardinality({j \in Selected : j <= i}) = k

\* C4: the raw series consists of exactly the records with
\* start <= timestamp <= end, in Dataset order; an inverted range gives an
\* empty series and no error.
C4_RangeFilter ==
    /\ Returned =>
          LET raw == result[1].data[1] IN
          /\ Len(raw.x) = Cardinality(Selected)
          /\ Len(raw.y) = Cardinality(Selected)
          /\ \A k \in 1..Cardinality(Selected) :
                /\ raw.x[k] = df.rows[NthSelected(k)].Date
                /\ raw.y[k] = df.rows[NthSelected(k)].val
    /\ (result # <<>> /\ query.param = "+28V_Imon"
            /\ TimeOf(query.start) > TimeOf(query.end)) =>
          /\ result[1].raised = ""
          /\ result[1].data[1].x = <<>>

\* A record on each bound is in the series, a record one tick before start
\* and one tick after end is not.
C4_Witness ==
    /\ Returned
    /\ Len(df.rows) = 3
    /\ \E i, j, k \in 1..Len(df.rows) :
          /\ df.rows[i].Date = TimeOf(query.start)
          /\ df.rows[j].Date = TimeOf(query.end) + 1
          /\ df.rows[k].Date = TimeOf(query.end)
    /\ Len(result[1].data[1].x) = 2

PopulatedDays == {Day(df.rows[i].Date) : i \in Selected}

FirstDay == CHOOSE d \in PopulatedDays : \A o \in PopulatedDays : d <= o
LastDay == CHOOSE d \in PopulatedDays : \A o \in PopulatedDays : d >= o

\* C5 (as amended): the daily statistics hold one entry for every calendar
\* day from the first to the last day with a record in range, in order; the
\* entry of a day with records carries a median, the entry of a day without
\* records in between carries NaN; no entry lies outside that span.
C5_DailyEntries ==
    Returned =>
        LET avg == result[1].data[2] IN
        IF PopulatedDays = {} THEN avg.x = <<>>
        ELSE /\ Len(avg.x) = LastDay - FirstDay + 1
             /\ Len(avg.y) = Len(avg.x)
             /\ \A k \in 1..Len(avg.x) :
                   /\ avg.x[k] = Midnight(FirstDay + k - 1) + Noon
                   /\ (avg.y[k] = NaN) <=> (FirstDay + k - 1 \notin PopulatedDays)

C5_Witness ==
    /\ Returned
    /\ Len(result[1].data[2].y) = 3
    /\ result[1].data[2].y[2] = NaN
    /\ result[1].data[2].y[1] # NaN

\* C5 as claimed: exactly one entry for each day with a record in range and
\* no entry for any other day.
C5_AsClaimed ==
    Returned =>
        LET avg == result[1].data[2] IN
        /\ Len(avg.x) = Cardinality(PopulatedDays)
        /\ \A k \in 1..Len(avg.x) : Day(avg.x[k]) \in PopulatedDays

\* Values of the records in range that fall on the given day
DayValues(day) ==
    LET pos == {i \in Selected : Day(df.rows[i].Date) = day}
        ord == CHOOSE q \in [1..Cardinality(pos) -> pos] :
                   \A i \in pos : \E k \in DOMAIN q : q[k] = i
    IN [k \in 1..Cardinality(pos) |-> df.rows[ord[k]].val]

SeriesOrder ==
    /\ Len(result[1].data) = 3
    /\ result[1].data[1].mode = "lines"
    /\ result[1].data[1].name = query.param
    /\ result[1].data[2].mode = "markers"
    /\ result[1].data[2].name = "Daily Average"
    /\ result[1].data[3].name = "10th-90th Percentile"
    /\ result[1].data[3].x = result[1].data[2].x
    /\ result[1].data[3].y = result[1].data[2].y

\* C9 (as amended): three series, raw line, daily-median markers, error bars;
\* for every daily entry whose day has a record in range the error bar sits
\* on the median, array = median - 10th percentile, arrayminus = 90th
\* percentile - median, both non-negative; the entry of a day without
\* records has NaN for the median and for both arms.  For the day values
\* 1, 1, 2: median 1.0, array 0.0, arrayminus 0.8.
C9_ErrorBars ==
    Returned =>
        /\ SeriesOrder
        /\ LET err == result[1].data[3] IN
           /\ Len(err.error_y.array) = Len(err.x)
           /\ Len(err.error_y.arrayminus) = Len(err.x)
           /\ \A k \in 1..Len(err.x) :
                LET vals == DayValues(Day(err.x[k])) IN
                IF vals = <<>>
                THEN /\ err.y[k] = NaN
                     /\ err.error_y.array[k] = NaN
                     /\ err.error_y.arrayminus[k] = NaN
                ELSE /\ err.y[k] = median(vals)
                     /\ err.error_y.array[k] = <<median(vals)[1] - quantile(vals, 1)[1]>>
                     /\ err.error_y.arrayminus[k] = <<quantile(vals, 9)[1] - median(vals)[1]>>
                     /\ err.error_y.array[k][1] >= 0
                     /\ err.error_y.arrayminus[k][1] >= 0
                     /\ Ascending(vals) = <<1, 1, 2>> =>
                           /\ err.y[k] = <<10>>
                           /\ err.error_y.array[k] = <<0>>
                           /\ err.error_y.arrayminus[k] = <<8>>

C9_Witness ==
    /\ Returned
    /\ Len(result[1].data[3].x) = 1
    /\ result[1].data[3].error_y.array = <<<<0>>>>
    /\ result[1].data[3].error_y.arrayminus = <<<<8>>>>

\* C9 as claimed: the arms of every daily entry are non-negative numbers.
C9_AsClaimed ==
    Returned =>
        /\ SeriesOrder
        /\ LET err == result[1].data[3] IN
           \A k \in 1..Len(err.x) :
               /\ err.error_y.array[k] = Minus(err.y[k], quantile(DayValues(Day(err.x[k])), 1))
               /\ err.error_y.arrayminus[k] = Minus(quantile(DayValues(Day(err.x[k])), 9), err.y[k])
               /\ err.error_y.array[k] # NaN
               /\ err.error_y.array[k][1] >= 0
               /\ err.error_y.arrayminus[k] # NaN
               /\ err.error_y.arrayminus[k][1] >= 0

\* C6: a parameter that is no column of the Dataset makes update_plot fail
\* with UnknownParameterError, for every range.
C6_UnknownParameterError ==
    (result # <<>> /\ \A i \in 1..Len(df.columns) : df.columns[i] # query.param) =>
        result[1].raised = "UnknownParameterError"

\* C8: no call of update_plot changes the Dataset held by the process.
C8_DatasetImmutable == [][pc = "serving" => df' = df]_vars

\* A query that left records out has returned and the Dataset still has them.
C8_Witness ==
    /\ Returned
    /\ Len(result[1].data[1].x) < Len(df.rows)
    /\ df.rows = prepare_data(disk).rows

-----------------------------------------------------------------------------
(* Claims about the remote listing (SpecDrive) *)

Leaves == {i \in 1..Len(drive) : drive[i].mimeType # FolderMime}

\* C10: list_files_recursively returns exactly the non-folder items reachable
\* from the root folder, each once and no folder among them, at any nesting
\* depth and however the service pages a folder's children.
C10_AllLeavesListedOnce ==
    listed # <<>> =>
        LET all_files == listed[1].all_files IN
        /\ {all_files[k] : k \in 1..Len(all_files)} = Leaves
        /\ Len(all_files) = Cardinality(Leaves)

====
